---- MODULE Spec2Model ----
(***************************************************************************)
(* The credit-risk dashboard of src/model.py: a Streamlit script that is   *)
(* re-executed from its first line on every interaction (file upload,      *)
(* file removal, a change of either selectbox).  The state is the widget   *)
(* state Streamlit keeps between runs and what the last run put on the     *)
(* page.                                                                   *)
(*                                                                         *)
(* Numbers.  The script computes in IEEE doubles.  A double is modelled as *)
(* an extended rational [kind, num, den]: a reduced fraction, +inf, -inf   *)
(* or NaN, with the IEEE rules for division by zero, for inf and for NaN.  *)
(* The literals 0.3, 0.7 and 0.01 are the fractions 3/10, 7/10 and 1/100;  *)
(* rounding to 53 bits is not modelled.                                    *)
(*                                                                         *)
(* Frames.  df is the sequence of its rows, a row being a function from    *)
(* column names to cell values; the row with index label i (pandas'        *)
(* RangeIndex, from 0) is df[i + 1].  A frame selected out of df           *)
(* (filtered_df, top_risk) is the sequence of the index labels of its      *)
(* rows: boolean-mask selection and take() copy rows with their labels.    *)
(***************************************************************************)
EXTENDS Integers, Sequences, FiniteSets, TLC

\* ------------------------------------------------------------------ bounds

\* Longest uploaded file, in data rows.
MaxRows == 2

\* Cell values of the files of the session specification.
Ages == {0, 30}
Incomes == {0, 1}
LoanAmounts == {0, 1}
\* Region labels, in the order groupby sorts its keys.
RegionOrder == <<"Accra", "Kumasi">>
Regions == {RegionOrder[i] : i \in 1..Len(RegionOrder)}

\* Cell values of the one-row files of the wide specification.
WideAges == {-10, 0, 10, 30, 70, 100, 200}
WideIncomes == {-1000000, -1, 0, 1, 1000000}
WideLoanAmounts == {-1, 0, 1, 2, 4}

\* ------------------------------------------------------------------ doubles

RECURSIVE Gcd(_, _)
Gcd(a, b) == IF b = 0 THEN a ELSE Gcd(b, a % b)

Abs(a) == IF a < 0 THEN -a ELSE a

NaN == [kind |-> "nan", num |-> 0, den |-> 1]
PosInf == [kind |-> "inf", num |-> 1, den |-> 1]
NegInf == [kind |-> "inf", num |-> -1, den |-> 1]

\* The finite double n/d (d # 0), reduced, with a positive denominator.
Fin(n, d) ==
    LET g == Gcd(Abs(n), Abs(d))
        s == IF d < 0 THEN -1 ELSE 1
    IN  [kind |-> "fin", num |-> (s * n) \div g, den |-> (s * d) \div g]

IsNaN(x) == x.kind = "nan"

\* -1, 0 or 1.
Sign(x) == IF x.num > 0 THEN 1 ELSE IF x.num < 0 THEN -1 ELSE 0

\* x < y and x <= y on doubles: false when either side is NaN.
FLt(x, y) ==
    /\ ~IsNaN(x)
    /\ ~IsNaN(y)
    /\ IF x.kind = "inf" THEN x.num < 0 /\ y # NegInf
       ELSE IF y.kind = "inf" THEN y.num > 0
       ELSE x.num * y.den < y.num * x.den

FLe(x, y) == ~IsNaN(x) /\ ~IsNaN(y) /\ (x = y \/ FLt(x, y))

\* a / b on a numeric column (pandas true division): x/0 is +inf or -inf,
\* 0/0 is NaN, and no exception is raised.
TrueDiv(a, b) ==
    IF b # 0 THEN Fin(a, b)
    ELSE IF a > 0 THEN PosInf
    ELSE IF a < 0 THEN NegInf
    ELSE NaN

FMul(x, y) ==
    IF IsNaN(x) \/ IsNaN(y) THEN NaN
    ELSE IF x.kind = "inf" \/ y.kind = "inf"
         THEN IF Sign(x) * Sign(y) = 0 THEN NaN
              ELSE IF Sign(x) * Sign(y) > 0 THEN PosInf ELSE NegInf
    ELSE Fin(x.num * y.num, x.den * y.den)

FAdd(x, y) ==
    IF IsNaN(x) \/ IsNaN(y) THEN NaN
    ELSE IF x.kind = "inf" /\ y.kind = "inf"
         THEN IF x = y THEN x ELSE NaN
    ELSE IF x.kind = "inf" THEN x
    ELSE IF y.kind = "inf" THEN y
    ELSE Fin(x.num * y.den + y.num * x.den, x.den * y.den)

\* np.maximum and np.minimum: NaN if either argument is NaN.
FMax(x, y) == IF IsNaN(x) \/ IsNaN(y) THEN NaN ELSE IF FLt(x, y) THEN y ELSE x
FMin(x, y) == IF IsNaN(x) \/ IsNaN(y) THEN NaN ELSE IF FLt(y, x) THEN y ELSE x

\* np.clip(x, lo, hi) == minimum(maximum(x, lo), hi).
Clip(x, lo, hi) == FMin(FMax(x, lo), hi)

\* ------------------------------------------------------------------ the script

\* df.columns of an uploaded file is a header: the columns it has, in the
\* order ColumnOrder gives them.
ColumnOrder == <<"age", "income", "loan_amount", "region">>

Range(s) == {s[i] : i \in 1..Len(s)}

Min(a, b) == IF a < b THEN a ELSE b

required_cols == <<"age", "income", "loan_amount">>

DerivedCols == <<"income_to_loan_ratio", "risk_score", "risk_level">>

\* The options of the risk-level selectbox; the first one is its default.
LevelOptions == <<"All", "Low", "Medium", "High">>

\* What st.selectbox returns when it has no option to offer.
NoIndex == -1

\* The missing category of pd.cut (a NaN cell of the categorical column).
NoLevel == "NaN"

\* The bug of naming every required column once one of them is missing.
MissingColsAll(columns) ==
    IF \A i \in 1..Len(required_cols) : required_cols[i] \in Range(columns)
    THEN <<>> ELSE required_cols

\* [col for col in required_cols if col not in df.columns]; the check of
\* line 24 fails exactly when this list is not empty.
MissingCols(columns) ==
    LET Absent(c) == c \notin Range(columns)
    IN  SelectSeq(required_cols, Absent)

\* bins.searchsorted(x, side="left"): how many edges lie strictly below x.
SearchSortedLeft(bins, x) == Cardinality({i \in 1..Len(bins) : FLt(bins[i], x)})

Bins == <<Fin(0, 1), Fin(3, 10), Fin(7, 10), Fin(1, 1)>>

Labels == <<"Low", "Medium", "High">>

\* The bug of cutting with right=False: intervals closed on the left.
CutLeftClosed(x) ==
    LET ids == Cardinality({i \in 1..Len(Bins) : FLe(Bins[i], x)})
    IN  IF IsNaN(x) \/ ids = 0 \/ ids = Len(Bins) THEN NoLevel ELSE Labels[ids]

\* pd.cut(x, bins=[0, 0.3, 0.7, 1], labels=["Low", "Medium", "High"]):
\* right-closed intervals, the lowest edge not included; a value in no
\* interval, and NaN, get the missing category.
Cut(x) ==
    LET ids == SearchSortedLeft(Bins, x)
    IN  IF IsNaN(x) \/ ids = 0 \/ ids = Len(Bins) THEN NoLevel ELSE Labels[ids]

\* income_to_loan_ratio * 0.3 + age * 0.01, clipped to [0, 1].
RiskScore(ratio, age) ==
    Clip(FAdd(FMul(ratio, Fin(3, 10)), FMul(Fin(age, 1), Fin(1, 100))),
         Fin(0, 1), Fin(1, 1))

\* The three columns the script adds to one row.
FeatureEngineering(row) ==
    LET ratio == TrueDiv(row["income"], row["loan_amount"])
        score == RiskScore(ratio, row["age"])
    IN  row @@ [income_to_loan_ratio |-> ratio,
                risk_score |-> score,
                risk_level |-> Cut(score)]

\* The bug of dropping the rows that have no score or no level.
ScoredFrameDropNa(rows) ==
    LET all == [i \in 1..Len(rows) |-> FeatureEngineering(rows[i])]
        Complete(r) == r["risk_level"] # NoLevel
    IN  SelectSeq(all, Complete)

\* df after lines 29-34: every row of the file, in order, with the derived
\* columns.
ScoredFrame(rows) == [i \in 1..Len(rows) |-> FeatureEngineering(rows[i])]

\* df.index: the labels 0 .. len(df) - 1.
Index(df) == [i \in 1..Len(df) |-> i - 1]

\* df.loc[label]
Loc(df, label) == df[label + 1]

\* The bug of filtering with != instead of ==.
FilteredDfOthers(df, level) ==
    LET Keep(l) == Loc(df, l)["risk_level"] # level
    IN  SelectSeq(Index(df), Keep)

\* df[df["risk_level"] == selected_level]: the labels of the rows the mask
\* keeps, in df's order.  A missing level equals no string.
FilteredDf(df, level) ==
    LET Keep(l) == Loc(df, l)["risk_level"] = level
    IN  SelectSeq(Index(df), Keep)

\* Whether the row at position p of frame `labels` is placed before the one
\* at position q by sort_values(by="risk_score", ascending=False): larger
\* scores first, NaN scores last in the frame's order (na_position="last").
\* The default kind="quicksort" is not a stable sort: the order it gives to
\* equal scores is a property of the numpy build, `ties`.
SortsBefore(df, labels, ties, p, q) ==
    LET a == Loc(df, labels[p])["risk_score"]
        b == Loc(df, labels[q])["risk_score"]
    IN  IF IsNaN(a) \/ IsNaN(b)
        THEN (~IsNaN(a) /\ IsNaN(b)) \/ (IsNaN(a) /\ IsNaN(b) /\ p < q)
        ELSE \/ FLt(b, a)
             \/ a = b /\ (IF ties = "input_order" THEN p < q ELSE p > q)

\* frame.sort_values(by="risk_score", ascending=False), as labels.
SortValues(df, labels, ties) ==
    LET n == Len(labels)
        Rank(p) == Cardinality({q \in 1..n : q # p /\ SortsBefore(df, labels, ties, q, p)})
    IN  [k \in 1..n |-> labels[CHOOSE p \in 1..n : Rank(p) = k - 1]]

\* The 5 of .head(5).
TopN == 5

\* frame.head(n)
Head_(s, n) == SubSeq(s, 1, Min(n, Len(s)))

\* frame.sort_values(by="risk_score", ascending=False).head(5)
TopRisk(df, labels, ties) == Head_(SortValues(df, labels, ties), TopN)

\* The bug of sending Medium borrowers to manual review as well.
RecommendationMedium(borrower) ==
    IF borrower["risk_level"] \in {"High", "Medium"} THEN "Review manually" ELSE "Likely Approve"

\* "Review manually" if borrower["risk_level"] == "High" else "Likely Approve"
Recommendation(borrower) ==
    IF borrower["risk_level"] = "High" THEN "Review manually" ELSE "Likely Approve"

\* The sum of the scores of the rows at positions ps of df.
RECURSIVE SumScores(_, _)
SumScores(df, ps) ==
    IF ps = <<>> THEN Fin(0, 1)
    ELSE FAdd(df[Head(ps)]["risk_score"], SumScores(df, Tail(ps)))

\* One row of region_summary, for the group of the rows with region r.
\* "count" counts the scores that are not NaN and "mean" averages those;
\* the lambda averages (x == "High") over every row of the group.
RegionRow(df, r) ==
    LET InGroup(i) == df[i]["region"] = r
        group == SelectSeq([i \in 1..Len(df) |-> i], InGroup)
        Scored(i) == ~IsNaN(df[i]["risk_score"])
        scored == SelectSeq(group, Scored)
        High(i) == df[i]["risk_level"] = "High"
    IN  [region |-> r,
         total_borrowers |-> Len(scored),
         avg_risk_score |-> IF scored = <<>> THEN NaN
                            ELSE FMul(SumScores(df, scored), Fin(1, Len(scored))),
         high_risk_pct |-> Fin(Len(SelectSeq(group, High)), Len(group))]

\* df.groupby("region").agg(...).reset_index(): one row per region that
\* occurs in df, the keys sorted.
RegionSummary(df) ==
    LET Occurs(r) == \E i \in 1..Len(df) : df[i]["region"] = r
        keys == SelectSeq(RegionOrder, Occurs)
    IN  [k \in 1..Len(keys) |-> RegionRow(df, keys[k])]

\* One cell of the report: a missing level is written as the empty field.
CsvCell(v, col) == IF col = "risk_level" /\ v = NoLevel THEN "" ELSE v

NoCsv == [header |-> <<>>, lines |-> <<>>]

\* df.to_csv(index=False): the header, then one line per row of df with
\* its cells in header order, and no index column.
ToCsv(df, columns) ==
    LET header == columns \o DerivedCols
    IN  [header |-> header,
         lines |-> [i \in 1..Len(df) |->
                       [j \in 1..Len(header) |-> CsvCell(df[i][header[j]], header[j])]]]

\* The slip of indenting the export under the region branch.
SectionsExportUnderRegion(columns, n, level) ==
    IF MissingCols(columns) # <<>> THEN {"error"}
    ELSE {"overview", "summary", "histogram", "level_select", "top_risk", "index_select"}
         \cup (IF level # "All" THEN {"filtered"} ELSE {})
         \cup (IF n = 0 THEN {"exception"}
               ELSE {"recommendation"}
                    \cup (IF "region" \in Range(columns)
                          THEN {"region_chart", "region_summary", "download"}
                          ELSE {"region_warning"}))

\* What one run of the script puts on the page when df has these columns
\* and n rows: the control flow of lines 19-106.  With no row the index
\* selectbox has no option and returns None, df.loc[None] raises KeyError
\* and the run ends there.
Sections(columns, n, level) ==
    IF MissingCols(columns) # <<>> THEN {"error"}
    ELSE {"overview", "summary", "histogram", "level_select", "top_risk", "index_select"}
         \cup (IF level # "All" THEN {"filtered"} ELSE {})
         \cup (IF n = 0 THEN {"exception"}
               ELSE {"recommendation"}
                    \cup (IF "region" \in Range(columns)
                          THEN {"region_chart", "region_summary"}
                          ELSE {"region_warning"})
                    \cup {"download"})

\* The value of the index selectbox in a run: None without options, the
\* first option when the widget is new, else what the user selected.
SelectedIndex(frame, index) ==
    IF Len(frame) = 0 THEN NoIndex
    ELSE IF index = NoIndex THEN Index(frame)[1]
    ELSE index

\* Everything one run computes, for the file, the state of the two
\* selectboxes and the build's order of equal sort keys.
RunResult(file, level, index, ties) ==
    LET frame == IF MissingCols(file.columns) # <<>> THEN file.rows
                 ELSE ScoredFrame(file.rows)
        shown == Sections(file.columns, Len(frame), level)
        chosen == SelectedIndex(frame, index)
    IN  [page |-> shown,
         selected_level |-> IF "level_select" \in shown THEN level ELSE LevelOptions[1],
         selected_index |-> IF "index_select" \in shown THEN chosen ELSE NoIndex,
         error_msg |-> IF "error" \in shown THEN MissingCols(file.columns) ELSE <<>>,
         df |-> frame,
         filtered_df |-> IF "filtered" \in shown THEN FilteredDf(frame, level) ELSE <<>>,
         top_risk |-> IF "top_risk" \in shown THEN TopRisk(frame, Index(frame), ties) ELSE <<>>,
         recommendation |-> IF "recommendation" \in shown
                            THEN Recommendation(Loc(frame, chosen)) ELSE "",
         region_summary |-> IF "region_summary" \in shown THEN RegionSummary(frame) ELSE <<>>,
         csv |-> IF "download" \in shown THEN ToCsv(frame, file.columns) ELSE NoCsv]

\* ------------------------------------------------------------------ state

VARIABLES
    uploaded_file,    \* <<>> (no file) or <<file>>, file = [columns, rows]
    quicksort_ties,   \* how the build's quicksort orders equal keys
    selected_level,   \* the risk-level selectbox
    selected_index,   \* the borrower-index selectbox
    page,             \* the sections the last run rendered
    error_msg,        \* the columns st.error names
    df,
    filtered_df,
    top_risk,
    recommendation,
    region_summary,
    csv               \* the data of the download button

vars == <<uploaded_file, quicksort_ties, selected_level, selected_index, page,
          error_msg, df, filtered_df, top_risk, recommendation, region_summary, csv>>

\* The rows a file with this header can hold, cells drawn from the sets.
RowsOver(columns, ages, incomes, loans) ==
    LET full == [age : ages, income : incomes, loan_amount : loans, region : Regions]
    IN  {[c \in Range(columns) |-> r[c]] : r \in full}

SeqsUpTo(S, n) == UNION {[1..k -> S] : k \in 0..n}

\* The headers: the non-empty sub-sequences of ColumnOrder.
Headers ==
    {SelectSeq(ColumnOrder, LAMBDA c : c \in cs) : cs \in SUBSET Range(ColumnOrder) \ {{}}}

Files ==
    UNION {[columns : {h}, rows : SeqsUpTo(RowsOver(h, Ages, Incomes, LoanAmounts), MaxRows)]
           : h \in Headers}

\* One-row files with the three required columns and a wide range of cells.
WideFiles ==
    [columns : {required_cols},
     rows : {<<r>> : r \in RowsOver(required_cols, WideAges, WideIncomes, WideLoanAmounts)}]

Init ==
    /\ uploaded_file = <<>>
    /\ quicksort_ties \in {"input_order", "reverse_order"}
    /\ selected_level = "All"
    /\ selected_index = NoIndex
    /\ page = {"info"}
    /\ error_msg = <<>>
    /\ df = <<>>
    /\ filtered_df = <<>>
    /\ top_risk = <<>>
    /\ recommendation = ""
    /\ region_summary = <<>>
    /\ csv = NoCsv

\* One execution of the script on `file`, the selectboxes holding `level`
\* and `index` (NoIndex: a new widget).  A selectbox the run does not
\* render keeps no state.
Rerun(file, level, index) ==
    \E r \in {RunResult(file, level, index, quicksort_ties)} :
        /\ selected_level' = r.selected_level
        /\ selected_index' = r.selected_index
        /\ page' = r.page
        /\ error_msg' = r.error_msg
        /\ df' = r.df
        /\ filtered_df' = r.filtered_df
        /\ top_risk' = r.top_risk
        /\ recommendation' = r.recommendation
        /\ region_summary' = r.region_summary
        /\ csv' = r.csv
        /\ UNCHANGED quicksort_ties

\* The user puts a file into the empty uploader; both selectboxes are new
\* and hold their first option.
UploadFrom(files) ==
    /\ uploaded_file = <<>>
    /\ \E file \in files :
          /\ uploaded_file' = <<file>>
          /\ Rerun(file, LevelOptions[1], NoIndex)

Upload == UploadFrom(Files)

UploadWide == UploadFrom(WideFiles)

\* The user removes the file: the rerun takes the else branch of line 105.
ClearFile ==
    /\ uploaded_file # <<>>
    /\ uploaded_file' = <<>>
    /\ selected_level' = "All"
    /\ selected_index' = NoIndex
    /\ page' = {"info"}
    /\ error_msg' = <<>>
    /\ df' = <<>>
    /\ filtered_df' = <<>>
    /\ top_risk' = <<>>
    /\ recommendation' = ""
    /\ region_summary' = <<>>
    /\ csv' = NoCsv
    /\ UNCHANGED quicksort_ties

\* The user picks an option of the risk-level selectbox.
SelectLevel ==
    /\ "level_select" \in page
    /\ \E level \in Range(LevelOptions) :
          /\ level # selected_level
          /\ Rerun(uploaded_file[1], level, selected_index)
    /\ UNCHANGED uploaded_file

\* The user picks an option of the borrower-index selectbox (df.index).
SelectBorrowerIndex ==
    /\ "index_select" \in page
    /\ \E index \in Range(Index(df)) :
          /\ index # selected_index
          /\ Rerun(uploaded_file[1], selected_level, index)
    /\ UNCHANGED uploaded_file

Next == Upload \/ ClearFile \/ SelectLevel \/ SelectBorrowerIndex

Spec == Init /\ [][Next]_vars

NextWide == UploadWide \/ ClearFile \/ SelectLevel

SpecWide == Init /\ [][NextWide]_vars

\* ------------------------------------------------------------------ claims

HasFile == uploaded_file # <<>>

File == uploaded_file[1]

\* The last run was of a file that has the three required columns.
Validated == HasFile /\ \A c \in {"age", "income", "loan_amount"} : c \in Range(File.columns)

Score(i) == df[i]["risk_score"]

Level(i) == df[i]["risk_level"]

\* A finite score in [0, 1].
InUnitInterval(x) == x.kind = "fin" /\ 0 <= x.num /\ x.num <= x.den

\* C1: a file that lacks one of age, income, loan_amount gets the error
\* naming exactly its missing required columns, each once, and nothing else
\* of the pipeline runs: no derived column, no filter, top-5, recommendation,
\* region aggregate or export.
C1_MissingColumnsHalt ==
    (HasFile /\ ~Validated) =>
        LET absent == {c \in {"age", "income", "loan_amount"} : c \notin Range(File.columns)}
        IN  /\ page = {"error"}
            /\ Range(error_msg) = absent
            /\ Len(error_msg) = Cardinality(absent)
            /\ df = File.rows
            /\ \A i \in 1..Len(df) : DOMAIN df[i] = Range(File.columns)
            /\ filtered_df = <<>>
            /\ top_risk = <<>>
            /\ recommendation = ""
            /\ region_summary = <<>>
            /\ csv = NoCsv

C1_Witness ==
    /\ HasFile
    /\ File.columns = <<"age", "loan_amount", "region">>
    /\ Len(File.rows) = 2
    /\ error_msg = <<"income">>

\* C2: every record of a validated dataset has a risk_score in [0, 1],
\* whatever its age, income and loan_amount, loan_amount = 0 included.
C2_ScoreInUnitInterval ==
    Validated => \A i \in 1..Len(df) : InUnitInterval(Score(i))

\* C3: risk_level is Low iff 0 < score <= 0.3, Medium iff 0.3 < score <= 0.7,
\* High iff 0.7 < score <= 1, and a score of exactly 0 has no level.
C3_LevelIntervals ==
    Validated =>
        \A i \in 1..Len(df) :
            LET x == Score(i)
                fin == x.kind = "fin"
            IN  /\ Level(i) \in {"Low", "Medium", "High", NoLevel}
                /\ Level(i) = "Low" <=> (fin /\ 0 < x.num /\ 10 * x.num <= 3 * x.den)
                /\ Level(i) = "Medium" <=>
                      (fin /\ 3 * x.den < 10 * x.num /\ 10 * x.num <= 7 * x.den)
                /\ Level(i) = "High" <=> (fin /\ 7 * x.den < 10 * x.num /\ x.num <= x.den)
                /\ (fin /\ x.num = 0) => Level(i) = NoLevel

C3_Witness ==
    /\ Validated
    /\ \E i \in 1..Len(df) : Score(i) = [kind |-> "fin", num |-> 7, den |-> 10]
                             /\ Level(i) = "Medium"

\* C4: the top-5 view is in non-increasing score order, has min(5, size)
\* rows, every row in it scores at least as much as every row left out, and
\* selecting the top 5 of the view again gives the view back.
C4_TopRiskSortedIdempotent ==
    "top_risk" \in page =>
        /\ Len(top_risk) = Min(TopN, Len(df))
        /\ \A i, j \in 1..Len(top_risk) :
              i < j => FLe(Loc(df, top_risk[j])["risk_score"], Loc(df, top_risk[i])["risk_score"])
        /\ \A l \in Range(top_risk), m \in Range(Index(df)) \ Range(top_risk) :
              FLe(Loc(df, m)["risk_score"], Loc(df, l)["risk_score"])
        /\ TopRisk(df, top_risk, quicksort_ties) = top_risk

\* C5: rows of the top-5 view that have equal scores are in their input
\* order.
C5_TopRiskStable ==
    "top_risk" \in page =>
        \A i, j \in 1..Len(top_risk) :
            (i < j /\ Loc(df, top_risk[i])["risk_score"] = Loc(df, top_risk[j])["risk_score"]
                   /\ ~IsNaN(Loc(df, top_risk[i])["risk_score"]))
                => top_risk[i] < top_risk[j]

\* The sum of total_borrowers over the rows of a region aggregate.
RECURSIVE SumTotals(_)
SumTotals(rs) == IF rs = <<>> THEN 0 ELSE Head(rs).total_borrowers + SumTotals(Tail(rs))

\* C6: the region aggregate has one row per distinct region, total_borrowers
\* is the number of records of the region, the totals add up to the dataset
\* size, and high_risk_pct is the fraction of High records, in [0, 1].
C6_RegionTotals ==
    "region_summary" \in page =>
        /\ {region_summary[k].region : k \in 1..Len(region_summary)}
              = {df[i]["region"] : i \in 1..Len(df)}
        /\ \A k, m \in 1..Len(region_summary) :
              region_summary[k].region = region_summary[m].region => k = m
        /\ SumTotals(region_summary) = Len(df)
        /\ \A k \in 1..Len(region_summary) :
              LET g == {i \in 1..Len(df) : df[i]["region"] = region_summary[k].region}
                  h == {i \in g : Level(i) = "High"}
                  pct == region_summary[k].high_risk_pct
              IN  /\ region_summary[k].total_borrowers = Cardinality(g)
                  /\ InUnitInterval(pct)
                  /\ pct.num * Cardinality(g) = Cardinality(h) * pct.den

\* C7: the recommendation is "Review manually" exactly when the record at
\* the selected index has level High, and "Likely Approve" for Low, Medium
\* and a missing level.
C7_Recommendation ==
    IF "recommendation" \in page
    THEN /\ selected_index \in Range(Index(df))
         /\ recommendation \in {"Review manually", "Likely Approve"}
         /\ recommendation = "Review manually" <=> Level(selected_index + 1) = "High"
    ELSE recommendation = ""

C7_Witness ==
    /\ "recommendation" \in page
    /\ selected_index = 1
    /\ Level(1) = "High"
    /\ Level(2) = NoLevel
    /\ recommendation = "Likely Approve"

\* C8: with a level selected, the filtered view is exactly the rows of that
\* level, in df's order (none for a level no row has, never a row without
\* level); with All selected no filter is applied and every row of the file
\* is still in df.
C8_FilterByLevel ==
    Validated =>
        IF selected_level # "All"
        THEN /\ "filtered" \in page
             /\ Range(filtered_df) = {l \in Range(Index(df)) : Loc(df, l)["risk_level"] = selected_level}
             /\ \A i, j \in 1..Len(filtered_df) : i < j => filtered_df[i] < filtered_df[j]
        ELSE /\ "filtered" \notin page
             /\ filtered_df = <<>>
             /\ Len(df) = Len(File.rows)
             /\ \A i \in 1..Len(df) : \A c \in Range(File.columns) : df[i][c] = File.rows[i][c]

C8_Witness ==
    /\ Validated
    /\ selected_level = "Low"
    /\ Len(df) = 2
    /\ Level(1) = NoLevel
    /\ filtered_df = <<1>>

\* The file with a region column added, regs[i] the region of row i.
WithRegion(file, regs) ==
    [columns |-> file.columns \o <<"region">>,
     rows |-> [i \in 1..Len(file.rows) |-> file.rows[i] @@ [region |-> regs[i]]]]

\* The cell of line i of a report under column c.
CsvAt(report, i, c) ==
    report.lines[i][CHOOSE j \in 1..Len(report.header) : report.header[j] = c]

C10_ScoredDatasetFrame ==
    [][(uploaded_file' # <<>> /\ "error" \notin page') =>
          LET file == uploaded_file'[1]
          IN  /\ Len(df') = Len(file.rows)
              /\ \A i \in 1..Len(df') :
                    /\ DOMAIN df'[i] = Range(file.columns) \cup Range(DerivedCols)
                    /\ \A c \in Range(file.columns) : df'[i][c] = file.rows[i][c]
              /\ Len(file.rows) > 0 => "download" \in page'
              /\ "download" \in page' =>
                    /\ csv'.header = file.columns \o DerivedCols
                    /\ Len(csv'.lines) = Len(df')
                    /\ \A i \in 1..Len(df') :
                          /\ \A c \in Range(file.columns) \cup {"income_to_loan_ratio", "risk_score"} :
                                CsvAt(csv', i, c) = df'[i][c]
                          /\ CsvAt(csv', i, "risk_level") =
                                (IF df'[i]["risk_level"] \in {"Low", "Medium", "High"}
                                 THEN df'[i]["risk_level"] ELSE "")
              /\ uploaded_file' = uploaded_file =>
                    /\ df' = df
                    /\ csv' = csv
                    /\ top_risk' = top_risk
                    /\ region_summary' = region_summary]_vars

C10_Witness ==
    /\ Validated
    /\ selected_level = "Medium"
    /\ selected_index = 1
    /\ Len(filtered_df) = 1
    /\ Len(csv.lines) = 2
    /\ Len(region_summary) = 2

====
